---- MODULE Spec2Model ----
(***************************************************************************)
(* The audit command of the maintainers tool: a sequential walk over the   *)
(* parsed sigs.yaml tree that prints free-text findings.  Strings are      *)
(* sequences of one-character strings; URLs and charter links are          *)
(* sequences of tokens ("/" or a chunk without a slash).  A printed line   *)
(* is the tuple of its format string and its arguments.                    *)
(***************************************************************************)
EXTENDS Naturals, Sequences, FiniteSets

VARIABLES
    context,    \* the parsed sigs.yaml tree (read-only during the run)
    args,       \* the positional arguments: the name filters
    net,        \* the constant answers of the network and the file system
    pc,         \* position of Run: "args", "groups", "done", "panic"
    argIdx,     \* index of the filter being handled
    visited,    \* the keys of the map this filter's range has been at
    cat,        \* the key the range is at, "none" before the first
    grpPos,     \* position in the current category's group list
    found,      \* the local variable found of Run
    out,        \* the lines printed so far
    gets,       \* the network GETs issued so far
    audits,     \* history: one record per auditGroup call
    revision    \* which revision of the command runs: "filtered" or "unfiltered"

vars == <<context, args, net, pc, argIdx, visited, cat, grpPos, found, out, gets, audits, revision>>

(***************************************************************************)
(* Bounds of the model.                                                    *)
(***************************************************************************)
MaxArgs == 2

MaxChairs == 2

MaxSubprojects == 2

MaxOwners == 2

MaxStakeholders == 2

(***************************************************************************)
(* Strings.                                                                *)
(***************************************************************************)
Range(s) == {s[i] : i \in 1..Len(s)}

\* strings.Contains(s, sub)
Contains(s, sub) ==
    \E i \in 0..Len(s) :
        /\ i + Len(sub) <= Len(s)
        /\ \A j \in 1..Len(sub) : s[i + j] = sub[j]

\* strings.HasPrefix(s, p)
HasPrefix(s, p) ==
    /\ Len(p) <= Len(s)
    /\ \A j \in 1..Len(p) : s[j] = p[j]

\* strings.HasSuffix(s, p)
HasSuffix(s, p) ==
    /\ Len(p) <= Len(s)
    /\ \A j \in 1..Len(p) : s[Len(s) - Len(p) + j] = p[j]

\* the %d verb of fmt.Printf
Digit(d) == <<"0", "1", "2", "3", "4", "5", "6", "7", "8", "9">>[d + 1]

RECURSIVE Itoa(_)
Itoa(n) == IF n < 10 THEN <<Digit(n)>> ELSE Itoa(n \div 10) \o <<Digit(n % 10)>>

(***************************************************************************)
(* The effect of a routine: the lines it printed, the GETs it issued and   *)
(* whether it ended in a run-time panic.                                   *)
(***************************************************************************)
Nop == [out |-> <<>>, gets |-> <<>>, panic |-> FALSE]

Printf(line) == [out |-> <<line>>, gets |-> <<>>, panic |-> FALSE]

Get(kind, url) == [out |-> <<>>, gets |-> <<<<kind, url>>>>, panic |-> FALSE]

Panic == [out |-> <<>>, gets |-> <<>>, panic |-> TRUE]

\* statement a followed by statement b; a panic in a skips b
Then(a, b) ==
    IF a.panic THEN a
    ELSE [out |-> a.out \o b.out, gets |-> a.gets \o b.gets, panic |-> b.panic]

RECURSIVE Block(_)
Block(stmts) ==
    IF stmts = <<>> THEN Nop ELSE Then(Head(stmts), Block(Tail(stmts)))

When(cond, stmt) == IF cond THEN stmt ELSE Nop

(***************************************************************************)
(* A pointer is the empty sequence (nil) or a one-element sequence.        *)
(***************************************************************************)
Nil == <<>>

Ref(x) == <<x>>

Deref(p) == p[1]

(***************************************************************************)
(* auditPerson                                                             *)
(***************************************************************************)
auditPerson(extra, person) ==
    Block(<<
        When(Len(person.Name) = 0,
             Printf(<<"WARNING: missing 'name' key in %s", extra>>)),
        When(Len(person.GitHub) = 0,
             Printf(<<"WARNING: missing 'github' key in %s for %s", extra, person.Name>>)),
        When(Len(person.Company) = 0,
             Printf(<<"OPTIONAL: missing 'company' key in %s for %s", extra, person.Name>>))
    >>)

(***************************************************************************)
(* auditContact                                                            *)
(***************************************************************************)
auditContact(contact) ==
    Block(<<
        When(Len(contact.Slack) = 0,
             Printf(<<"WARNING: missing 'slack' in contact">>)),
        When(Len(contact.MailingList) = 0,
             Printf(<<"WARNING: missing 'mailing_list' in contact">>)),
        When(Len(contact.PrivateMailingList) = 0,
             Printf(<<"OPTIONAL: missing 'private_mailing_list' in contact">>)),
        When(Len(contact.GithubTeams) = 0,
             Printf(<<"OPTIONAL: missing 'teams' in contact">>)),
        IF contact.Liaison # Nil
        THEN auditPerson(<<"contact/liaison">>, Deref(contact.Liaison))
        ELSE Nop
    >>)

(***************************************************************************)
(* auditLeadership                                                         *)
(***************************************************************************)
MoreChairsLine ==
    <<"WARNING: please consider adding more folks in as 'chairs' (in 'leadership' section)">>

MissingChairsLine == <<"WARNING: missing 'chairs' key (in 'leadership' section)">>

auditLeadershipPerson(person) == auditPerson(<<"leadership">>, person)

auditChairs(group, groupType) ==
    When(Len(group.Leadership.Chairs) = 0,
         Block(<<
             Printf(MissingChairsLine),
             When(groupType = "sig",
                  When(Len(group.Leadership.Chairs) = 1, Printf(MoreChairsLine)))
         >>))

auditTechnicalLeads(group, groupType) ==
    When(Len(group.Leadership.TechnicalLeads) = 0,
         Block(<<
             Printf(<<"WARNING: missing 'tech_leads' key (in 'leadership' section)">>),
             When(groupType = "sig",
                  Printf(<<"WARNING: if chairs are serving as tech leads, please add them explicitly in 'tech_leads' key (in 'leadership' section)">>))
         >>))

auditLeadership(group, groupType) ==
    Block(<<
        auditChairs(group, groupType),
        auditTechnicalLeads(group, groupType),
        LET persons == group.Leadership.Chairs \o group.Leadership.TechnicalLeads
                           \o group.Leadership.EmeritusLeads
        IN  Block([i \in 1..Len(persons) |-> auditLeadershipPerson(persons[i])])
    >>)

(***************************************************************************)
(* auditCharterLink.  net.charter maps a link to the answer of the GET:    *)
(* [err, resp]; net.files is the set of paths that exist.                  *)
(***************************************************************************)
\* path.Join(pwd, dir, link), the working directory left implicit
CharterPath(group) == <<group.Dir, group.CharterLink>>

auditCharterLink(group) ==
    IF HasPrefix(group.CharterLink, <<"http">>)
    THEN Then(Get("charter", group.CharterLink),
              LET r == net.charter[group.CharterLink] IN
              When(r.err \/ Deref(r.resp).StatusCode # 200,
                   Printf(<<"WARNING: unable to reach url for 'charter_link' - %s",
                            group.CharterLink>>)))
    ELSE When(CharterPath(group) \notin net.files,
              Printf(<<"WARNING: missing file for 'charter_link' - %s",
                       CharterPath(group)>>))

(***************************************************************************)
(* auditWorkingGroupStakeholders                                           *)
(***************************************************************************)
StakeholderNotFoundLine(stakeholder) ==
    <<"WARNING: stakeholder_sigs entry '%s' not found (typo?)", stakeholder>>

MissingStakeholdersLine == <<"WARNING: missing 'stakeholder_sigs' key">>

OnlyWorkingGroupsLine == <<"ERROR: only 'workinggroups' may have stakeholder_sigs ()">>

\* the comparison made without regard to case
StakeholderFound_IgnoreCase(stakeholder, ctx) ==
    \E i \in 1..Len(ctx.Sigs) :
        [k \in 1..Len(ctx.Sigs[i].Name) |->
            IF ctx.Sigs[i].Name[k] = "A" THEN "a" ELSE ctx.Sigs[i].Name[k]]
            = [k \in 1..Len(stakeholder) |->
                IF stakeholder[k] = "A" THEN "a" ELSE stakeholder[k]]

\* the inner loop: found is set when some sig's Name equals the entry
StakeholderFound(stakeholder, ctx) ==
    \E i \in 1..Len(ctx.Sigs) : ctx.Sigs[i].Name = stakeholder

auditWorkingGroupStakeholders(groupType, group, ctx) ==
    LET one(stakeholder) ==
            When(~StakeholderFound(stakeholder, ctx),
                 Printf(StakeholderNotFoundLine(stakeholder)))
    IN  IF groupType = "wg"
        THEN IF Len(group.StakeholderSIGs) = 0
             THEN Printf(MissingStakeholdersLine)
             ELSE Block([i \in 1..Len(group.StakeholderSIGs) |-> one(group.StakeholderSIGs[i])])
        ELSE When(Len(group.StakeholderSIGs) > 0, Printf(OnlyWorkingGroupsLine))

(***************************************************************************)
(* The two owner-URL patterns.  A pattern is a sequence of elements: a     *)
(* literal token, "[^/]+", "(blob|tree)" or ".*".  The named groups of the *)
(* source only name the pieces and do not change what matches.             *)
(***************************************************************************)
regexRawGitHubURL ==
    <<"https:", "/", "/", "raw.githubusercontent.com", "/",
      "[^/]+", "/", "[^/]+", "/", "[^/]+", "/", ".*">>

regexGitHubURL ==
    <<"https:", "/", "/", "github.com", "/",
      "[^/]+", "/", "[^/]+", "/", "(blob|tree)", "/", "[^/]+", "/", ".*">>

\* does pat match url from position i on (unanchored at the end)
RECURSIVE MatchAt(_, _, _)
MatchAt(pat, url, i) ==
    IF pat = <<>> THEN TRUE
    ELSE LET e == Head(pat) IN
         IF e = ".*"
         THEN \E j \in i..(Len(url) + 1) : MatchAt(Tail(pat), url, j)
         ELSE IF e = "[^/]+"
         THEN \E k \in 1..Len(url) :
                 /\ i + k - 1 <= Len(url)
                 /\ \A m \in i..(i + k - 1) : url[m] # "/"
                 /\ MatchAt(Tail(pat), url, i + k)
         ELSE IF e = "(blob|tree)"
         THEN /\ i <= Len(url)
              /\ url[i] \in {"blob", "tree"}
              /\ MatchAt(Tail(pat), url, i + 1)
         ELSE /\ i <= Len(url)
              /\ url[i] = e
              /\ MatchAt(Tail(pat), url, i + 1)

\* regexp.MatchString: the pattern may match anywhere in the string
MatchString(pat, url) == \E i \in 1..(Len(url) + 1) : MatchAt(pat, url, i)

UrlShapeOk(url) ==
    MatchString(regexRawGitHubURL, url) \/ MatchString(regexGitHubURL, url)

(***************************************************************************)
(* auditOwnersInfo                                                         *)
(***************************************************************************)
auditOwnersInfo(group, info, url) ==
    LET allOwners == info.Approvers \o info.Reviewers \o info.RequiredReviewers
    IN  Block(<<
            IF Len(info.Labels) > 0
            THEN When(Len(group.Label) > 0,
                      When(~\E i \in 1..Len(info.Labels) :
                                HasSuffix(info.Labels[i], group.Label),
                           Printf(<<"WARNING: file does not have a label that contains with %s. Please ensure OWNERS file has labels reflecting %s - %s",
                                    group.Label, group.Dir, url>>)))
            ELSE Printf(<<"WARNING: file at url does not have any labels. Please ensure OWNERS file has labels reflecting %s - %s",
                          group.Dir, url>>),
            When(~\E i \in 1..Len(allOwners) : Contains(allOwners[i], group.Label),
                 Printf(<<"WARNING: file at url does not seem to have approvers/reviewers with the sig alias (defined in OWNER_ALIASES). Please consider adding a sig alias OWNER_ALIASES and add them to approvers/reviewers in this file - %s",
                          url>>))
        >>)

(***************************************************************************)
(* auditOwnersFiles.  net.owners maps a URL to the answer of http.Get:     *)
(* err (a transport error or not) and resp, nil or a response with its     *)
(* StatusCode, whether reading the body fails, and the bytes read.         *)
(***************************************************************************)
\* utils.GetOwnersInfoFromBytes: the parsed file, or an error
GetOwnersInfoFromBytes(bytes) ==
    IF bytes.valid THEN [err |-> FALSE, info |-> bytes.info]
    ELSE [err |-> TRUE, info |-> bytes.info]

ShapeErrorLine(url) ==
    <<"ERROR: owner urls should match regexp %s, found: %s", regexRawGitHubURL, url>>

StaleLine(url, status, err) ==
    <<"WARNING: stale url %s - http status code = %d - %s", url, Itoa(status), err>>

\* the %s of an error value
ErrorText(isErr) == IF isErr THEN <<"transport error">> ELSE <<"%!s(<nil>)">>

\* the else branch of line 207: the arguments are evaluated before the
\* print, and resp.StatusCode of a nil resp is a nil dereference
staleUrl(url, r) ==
    IF r.resp = Nil THEN Panic
    ELSE Printf(StaleLine(url, Deref(r.resp).StatusCode, ErrorText(r.err)))

\* one iteration of the loop over subproject.Owners
auditOwnerUrl(group, url) ==
    IF ~UrlShapeOk(url)
    THEN Printf(ShapeErrorLine(url))
    ELSE Then(Get("owners", url),
              LET r == net.owners[url] IN
              IF ~r.err /\ Deref(r.resp).StatusCode = 200
              THEN LET resp   == Deref(r.resp)
                       parsed == GetOwnersInfoFromBytes(resp.bytes)
                   IN  Block(<<
                           When(resp.readErr,
                                Printf(<<"ERROR: unable to read owners file at %s url - %v",
                                         url, <<"read error">>>>)),
                           IF parsed.err
                           THEN Printf(<<"ERROR: unable to parse owners file at %s url - %v",
                                         url, <<"parse error">>>>)
                           ELSE IF ~Contains(url, <<"kubernetes", "/", "kubernetes">>)
                                THEN Nop
                                ELSE auditOwnersInfo(group, parsed.info, url)
                       >>)
              ELSE staleUrl(url, r))

auditOwnersFiles(group, subproject) ==
    LET one(url) == auditOwnerUrl(group, url)
    IN  Block(<<
            Printf(<<">>>> Processing owners files for %s/%s", group.Dir, subproject.Name>>),
            When(Len(subproject.Owners) = 0,
                 Printf(<<"ERROR: subproject %s has no owners", subproject.Name>>)),
            Block([i \in 1..Len(subproject.Owners) |-> one(subproject.Owners[i])])
        >>)

(***************************************************************************)
(* auditSubProject                                                         *)
(***************************************************************************)
SubprojectHeader(group, subproject) ==
    <<">>>> Processing subproject %s under %s", subproject.Name, group.Dir>>

auditOneSubProject(group, subproject) ==
    Block(<<
        Printf(SubprojectHeader(group, subproject)),
        When(Len(subproject.Name) = 0, Printf(<<"WARNING: missing 'name' key">>)),
        When(Len(subproject.Description) = 0,
             Printf(<<"WARNING: missing 'description' key">>)),
        IF subproject.Contact = Nil
        THEN Printf(<<"WARNING: missing 'contact' key">>)
        ELSE auditContact(Deref(subproject.Contact)),
        IF Len(subproject.Owners) = 0
        THEN Printf(<<"ERROR: missing 'owners' key">>)
        ELSE auditOwnersFiles(group, subproject),
        When(Len(subproject.Meetings) = 0, Printf(<<"WARNING: missing 'meetings' key">>))
    >>)

auditSubProject(group) ==
    LET one(subproject) == auditOneSubProject(group, subproject)
    IN  Block([i \in 1..Len(group.Subprojects) |-> one(group.Subprojects[i])])

(***************************************************************************)
(* The derivation of the expected directory and label of a group           *)
(* (utils.Group.DirName, utils.Group.LabelName): the lower-cased,          *)
(* hyphenated display name, the directory prefixed by the category tag.    *)
(***************************************************************************)
ToLower(c) ==
    CASE c = "A" -> "a"
      [] c = "N" -> "n"
      [] c = "Z" -> "z"
      [] c = " " -> "-"
      [] OTHER   -> c

Hyphenated(name) == [i \in 1..Len(name) |-> ToLower(name[i])]

PrefixChars(groupType) ==
    CASE groupType = "sig"       -> <<"s", "i", "g">>
      [] groupType = "wg"        -> <<"w", "g">>
      [] groupType = "ug"        -> <<"u", "g">>
      [] groupType = "committee" -> <<"c", "o", "m", "m", "i", "t", "t", "e", "e">>

DirName(group, groupType) == PrefixChars(groupType) \o <<"-">> \o Hyphenated(group.Name)

LabelName(group, groupType) == Hyphenated(group.Name)

(***************************************************************************)
(* auditGroup                                                              *)
(***************************************************************************)
GroupHeader(groupType, group) ==
    <<">>>> Processing %s [%s/%s]", <<groupType>>, group.Dir, group.Name>>

MissingDirLine == <<"WARNING: missing 'dir' key">>

MissingNameLine == <<"WARNING: missing 'name' key">>

MissingLabelLine == <<"WARNING: missing 'label' keys">>

MissingMeetingsLine == <<"WARNING: missing 'meetings' key">>

MissingMissionLine == <<"ERROR: missing 'mission_statement' key">>

MissingCharterLine == <<"ERROR: missing 'charter_link' key">>

MissingSubprojectsLine == <<"WARNING: missing 'subprojects' key">>

SubprojectsErrorLine(n) ==
    <<"ERROR: only sigs and committees can own code / have subprojects, found: %d subprojects",
      Itoa(n)>>

\* lines 102-109
auditDerivedNames(groupType, group) ==
    Block(<<
        When(DirName(group, groupType) # group.Dir,
             Printf(<<"ERROR: expected dir: %s, got: %s",
                      DirName(group, groupType), group.Dir>>)),
        When(LabelName(group, groupType) # group.Label,
             Printf(<<"ERROR: expected label: %s, got: %s",
                      LabelName(group, groupType), group.Label>>))
    >>)

\* lines 110-119
auditSigCharter(groupType, group) ==
    When(groupType = "sig",
         Block(<<
             When(Len(group.MissionStatement) = 0, Printf(MissingMissionLine)),
             IF Len(group.CharterLink) = 0
             THEN Printf(MissingCharterLine)
             ELSE auditCharterLink(group)
         >>))

\* lines 120-122
auditStakeholders(groupType, group, ctx) ==
    When(groupType = "wg", auditWorkingGroupStakeholders(groupType, group, ctx))

\* the subproject rule applied to committees as well
auditOwnedSubprojects_WithCommittee(groupType, group) ==
    When(groupType = "sig" \/ groupType = "committee",
         IF Len(group.Subprojects) = 0
         THEN Printf(MissingSubprojectsLine)
         ELSE auditSubProject(group))

\* lines 131-137
auditOwnedSubprojects(groupType, group) ==
    When(groupType = "sig",
         IF Len(group.Subprojects) = 0
         THEN Printf(MissingSubprojectsLine)
         ELSE auditSubProject(group))

\* the committee left out of the exemption
auditForeignSubprojects_SigOnly(groupType, group) ==
    When(groupType # "sig",
         When(Len(group.Subprojects) > 0,
              Printf(SubprojectsErrorLine(Len(group.Subprojects)))))

\* lines 138-142
auditForeignSubprojects(groupType, group) ==
    When(groupType # "committee" /\ groupType # "sig",
         When(Len(group.Subprojects) > 0,
              Printf(SubprojectsErrorLine(Len(group.Subprojects)))))

auditGroup(groupType, group, ctx) ==
    Block(<<
        When(Len(group.Dir) = 0, Printf(MissingDirLine)),
        When(Len(group.Name) = 0, Printf(MissingNameLine)),
        Printf(GroupHeader(groupType, group)),
        auditDerivedNames(groupType, group),
        auditSigCharter(groupType, group),
        auditStakeholders(groupType, group, ctx),
        When(Len(group.Label) = 0, Printf(MissingLabelLine)),
        auditLeadership(group, groupType),
        When(Len(group.Meetings) = 0, Printf(MissingMeetingsLine)),
        auditContact(group.Contact),
        auditOwnedSubprojects(groupType, group),
        auditForeignSubprojects(groupType, group)
    >>)

(***************************************************************************)
(* auditCmd.Run, from the loop over the arguments on.                      *)
(***************************************************************************)
GroupTypes == {"sig", "wg", "ug", "committee"}

\* utils.Context.PrefixToGroupMap
PrefixToGroupMap(ctx) ==
    [t \in GroupTypes |->
        CASE t = "sig"       -> ctx.Sigs
          [] t = "wg"        -> ctx.WorkingGroups
          [] t = "ug"        -> ctx.UserGroups
          [] t = "committee" -> ctx.Committees]

All == <<"a", "l", "l">>

\* the condition of line 79
Selected(name, group) ==
    name = All \/ Contains(group.Name, name) \/ Contains(group.Dir, name)

NotFoundLine(name) == <<"[%s] not found", name>>

DoneLine == <<"Done.">>

\* line 75-77: the next argument; the range over the map starts
BeginArg ==
    /\ pc = "args"
    /\ argIdx <= Len(args)
    /\ pc' = "groups"
    /\ found' = FALSE
    /\ visited' = {}
    /\ cat' = "none"
    /\ grpPos' = 0
    /\ UNCHANGED <<revision, context, args, net, argIdx, out, gets, audits>>

\* the groups of the category the range is at
CurrentGroups == IF cat = "none" THEN <<>> ELSE PrefixToGroupMap(context)[cat]

\* line 77: the range moves to another key of the map; Go leaves the
\* order of a map range unspecified, so any key not yet visited may come
NextCategory ==
    /\ pc = "groups"
    /\ grpPos >= Len(CurrentGroups)
    /\ \E t \in GroupTypes \ visited :
          /\ cat' = t
          /\ visited' = visited \cup {t}
    /\ grpPos' = 0
    /\ UNCHANGED <<revision, context, args, net, pc, argIdx, found, out, gets, audits>>

\* lines 78-83: one group of the current category
VisitGroup ==
    /\ pc = "groups"
    /\ grpPos < Len(CurrentGroups)
    /\ LET group == CurrentGroups[grpPos + 1]
           res   == auditGroup(cat, group, context)
       IN  IF Selected(args[argIdx], group)
           THEN /\ out' = out \o res.out
                /\ gets' = gets \o res.gets
                /\ audits' = Append(audits, [arg |-> argIdx, groupType |-> cat,
                                             idx |-> grpPos + 1, group |-> group,
                                             res |-> res])
                /\ pc' = IF res.panic THEN "panic" ELSE pc
                /\ found' = IF res.panic THEN found ELSE TRUE
           ELSE UNCHANGED <<out, gets, audits, pc, found>>
    /\ grpPos' = grpPos + 1
    /\ UNCHANGED <<revision, context, args, net, argIdx, visited, cat>>

\* lines 85-88: the map is exhausted
EndArg ==
    /\ pc = "groups"
    /\ visited = GroupTypes
    /\ grpPos >= Len(CurrentGroups)
    /\ out' = IF ~found THEN Append(out, NotFoundLine(args[argIdx])) ELSE out
    /\ argIdx' = argIdx + 1
    /\ pc' = "args"
    /\ visited' = {}
    /\ cat' = "none"
    /\ grpPos' = 0
    /\ found' = FALSE
    /\ UNCHANGED <<revision, context, args, net, gets, audits>>

\* line 89
Finish ==
    /\ pc = "args"
    /\ argIdx > Len(args)
    /\ out' = Append(out, DoneLine)
    /\ pc' = "done"
    /\ UNCHANGED <<revision, context, args, net, argIdx, visited, cat, grpPos, found, gets, audits>>

(***************************************************************************)
(* The unfiltered revision of the command (src/cmd/audit.go): it takes no  *)
(* filters, audits every group, and names the group in every line.         *)
(***************************************************************************)
auditPersonUnfiltered(group, groupType, extra, person) ==
    LET shown == <<person.Name, person.GitHub, person.Company>> IN
    Block(<<
        When(Len(person.Name) = 0,
             Printf(<<"WARNING: missing %s name for %v for %s/%s",
                      extra, shown, <<groupType>>, group.Dir>>)),
        When(Len(person.GitHub) = 0,
             Printf(<<"WARNING: missing %s github id for %v for %s/%s",
                      extra, shown, <<groupType>>, group.Dir>>)),
        When(Len(person.Company) = 0,
             Printf(<<"WARNING: missing %s company for %v for %s/%s",
                      extra, shown, <<groupType>>, group.Dir>>))
    >>)

auditContactUnfiltered(contact, groupType, group) ==
    Block(<<
        When(Len(contact.Slack) = 0,
             Printf(<<"WARNING: missing 'slack' for %s/%s under contact",
                      <<groupType>>, group.Dir>>)),
        When(Len(contact.MailingList) = 0,
             Printf(<<"WARNING: missing 'mailing_list' for %s/%s under contact",
                      <<groupType>>, group.Dir>>)),
        When(Len(contact.PrivateMailingList) = 0,
             Printf(<<"WARNING: missing 'private_mailing_list' for %s/%s under contact",
                      <<groupType>>, group.Dir>>)),
        When(Len(contact.GithubTeams) = 0,
             Printf(<<"WARNING: missing 'teams' for %s/%s under contact",
                      <<groupType>>, group.Dir>>)),
        IF contact.Liaison # Nil
        THEN auditPersonUnfiltered(group, groupType, <<"contact/liaison">>,
                                   Deref(contact.Liaison))
        ELSE Nop
    >>)

auditCharterLinkUnfiltered(groupType, group) ==
    IF HasPrefix(group.CharterLink, <<"http">>)
    THEN Then(Get("charter", group.CharterLink),
              LET r == net.charter[group.CharterLink] IN
              When(r.err \/ Deref(r.resp).StatusCode # 200,
                   Printf(<<"WARNING: unable to reach url %s for %s/%s",
                            group.CharterLink, <<groupType>>, group.Dir>>)))
    ELSE When(CharterPath(group) \notin net.files,
              Printf(<<"WARNING: missing file %s for %s/%s",
                       CharterPath(group), <<groupType>>, group.Dir>>))

StakeholderNotFoundLineUnfiltered(stakeholder, groupType, group) ==
    <<"WARNING: stakeholder_sigs entry '%s' not found for %s/%s",
      stakeholder, <<groupType>>, group.Dir>>

MissingStakeholdersLineUnfiltered(groupType, group) ==
    <<"WARNING: missing 'stakeholder_sigs' for %s/%s", <<groupType>>, group.Dir>>

\* lines 165-171
StakeholderFoundUnfiltered(stakeholder, ctx) ==
    \E i \in 1..Len(ctx.Sigs) : ctx.Sigs[i].Name = stakeholder

auditWorkingGroupStakeholdersUnfiltered(group, groupType, ctx) ==
    LET one(stakeholder) ==
            When(~StakeholderFoundUnfiltered(stakeholder, ctx),
                 Printf(StakeholderNotFoundLineUnfiltered(stakeholder, groupType, group)))
    IN  IF Len(group.StakeholderSIGs) = 0
        THEN Printf(MissingStakeholdersLineUnfiltered(groupType, group))
        ELSE Block([i \in 1..Len(group.StakeholderSIGs) |-> one(group.StakeholderSIGs[i])])

MoreChairsLineUnfiltered(groupType, group) ==
    <<"WARNING: please consider adding more folks in 'leadership/chairs' for %s/%s",
      <<groupType>>, group.Dir>>

auditLeadershipUnfiltered(group, groupType) ==
    LET one(person) == auditPersonUnfiltered(group, groupType, <<"leadership">>, person)
    IN  Block(<<
            When(Len(group.Leadership.Chairs) = 0,
                 Block(<<
                     Printf(<<"WARNING: missing 'leadership/chairs' for %s/%s",
                              <<groupType>>, group.Dir>>),
                     When(groupType = "sigs",
                          When(Len(group.Leadership.Chairs) = 1,
                               Printf(MoreChairsLineUnfiltered(groupType, group))))
                 >>)),
            When(Len(group.Leadership.TechnicalLeads) = 0,
                 Block(<<
                     Printf(<<"WARNING: missing 'leadership/tech_leads' for %s/%s",
                              <<groupType>>, group.Dir>>),
                     When(groupType = "sigs",
                          Printf(<<"WARNING: if chairs are serving as tech leads, please add them explicitly in 'leadership/tech_leads' for %s/%s",
                                   <<groupType>>, group.Dir>>))
                 >>)),
            LET persons == group.Leadership.Chairs \o group.Leadership.TechnicalLeads
                               \o group.Leadership.EmeritusLeads
            IN  Block([i \in 1..Len(persons) |-> one(persons[i])])
        >>)

auditSubProjectUnfiltered(group, groupType) ==
    LET one(subproject) ==
            LET extra == <<"[%s/%s]", subproject.Name, subproject.Description>> IN
            Block(<<
                When(Len(subproject.Name) = 0,
                     Printf(<<"WARNING: missing name for subproject %v for a group under %s/%s",
                              extra, <<groupType>>, group.Dir>>)),
                When(Len(subproject.Description) = 0,
                     Printf(<<"WARNING: missing description for subproject %v for a group under %s/%s",
                              extra, <<groupType>>, group.Dir>>)),
                IF subproject.Contact = Nil
                THEN Printf(<<"WARNING: missing contact for subproject %v for a group under %s/%s",
                              extra, <<groupType>>, group.Dir>>)
                ELSE auditContactUnfiltered(Deref(subproject.Contact), groupType, group),
                When(Len(subproject.Owners) = 0,
                     Printf(<<"WARNING: missing owners for subproject %v for a group under %s/%s",
                              extra, <<groupType>>, group.Dir>>)),
                When(Len(subproject.Meetings) = 0,
                     Printf(<<"WARNING: missing meetings for subproject %v for a group under %s/%s",
                              extra, <<groupType>>, group.Dir>>))
            >>)
    IN  Block([i \in 1..Len(group.Subprojects) |-> one(group.Subprojects[i])])

GroupHeaderUnfiltered(groupType, group) ==
    <<">>>> Processing %s [%s/%s]", <<groupType>>, group.Dir, group.Name>>

auditGroupUnfiltered(groupType, group, ctx) ==
    Block(<<
        When(Len(group.Dir) = 0,
             Printf(<<"WARNING: missing 'dir' for a group under %s/%s",
                      <<groupType>>, group.Name>>)),
        When(Len(group.Name) = 0,
             Printf(<<"WARNING: missing 'name' for a group under %s/%s",
                      <<groupType>>, group.Dir>>)),
        Printf(GroupHeaderUnfiltered(groupType, group)),
        When(Len(group.MissionStatement) = 0,
             Printf(<<"WARNING: missing 'mission_statement' for %s/%s",
                      <<groupType>>, group.Dir>>)),
        IF Len(group.CharterLink) = 0
        THEN Printf(<<"WARNING: missing 'charter_link' for %s/%s", <<groupType>>, group.Dir>>)
        ELSE auditCharterLinkUnfiltered(groupType, group),
        When(groupType = "workinggroups",
             auditWorkingGroupStakeholdersUnfiltered(group, groupType, ctx)),
        When(Len(group.Label) = 0,
             Printf(<<"WARNING: missing 'label' for %s/%s", <<groupType>>, group.Dir>>)),
        auditLeadershipUnfiltered(group, groupType),
        When(Len(group.Meetings) = 0,
             Printf(<<"WARNING: missing 'meetings' for %s/%s", <<groupType>>, group.Dir>>)),
        auditContactUnfiltered(group.Contact, groupType, group),
        IF Len(group.Subprojects) = 0
        THEN Printf(<<"WARNING: missing 'subprojects' for a group under %s/%s",
                      <<groupType>>, group.Dir>>)
        ELSE auditSubProjectUnfiltered(group, groupType)
    >>)

GroupKeys == {"sigs", "usergroups", "workinggroups", "committees"}

\* the map literal of lines 54-59
groupMap(ctx) ==
    [t \in GroupKeys |->
        CASE t = "sigs"          -> ctx.Sigs
          [] t = "usergroups"    -> ctx.UserGroups
          [] t = "workinggroups" -> ctx.WorkingGroups
          [] t = "committees"    -> ctx.Committees]

GroupsAtUnfiltered == IF cat = "none" THEN <<>> ELSE groupMap(context)[cat]

\* line 61: the range over groupMap moves to another key, in no specified order
NextKeyUnfiltered ==
    /\ pc = "unfiltered"
    /\ grpPos >= Len(GroupsAtUnfiltered)
    /\ \E t \in GroupKeys \ visited :
          /\ cat' = t
          /\ visited' = visited \cup {t}
    /\ grpPos' = 0
    /\ UNCHANGED <<revision, context, args, net, pc, argIdx, found, out, gets, audits>>

\* lines 62-64
VisitGroupUnfiltered ==
    /\ pc = "unfiltered"
    /\ grpPos < Len(GroupsAtUnfiltered)
    /\ LET group == GroupsAtUnfiltered[grpPos + 1]
           res   == auditGroupUnfiltered(cat, group, context)
       IN  /\ out' = out \o res.out
           /\ gets' = gets \o res.gets
           /\ audits' = Append(audits, [arg |-> 0, groupType |-> cat,
                                        idx |-> grpPos + 1, group |-> group,
                                        res |-> res])
    /\ grpPos' = grpPos + 1
    /\ UNCHANGED <<revision, context, args, net, pc, argIdx, found, visited, cat>>

\* line 66
FinishUnfiltered ==
    /\ pc = "unfiltered"
    /\ visited = GroupKeys
    /\ grpPos >= Len(GroupsAtUnfiltered)
    /\ out' = Append(out, DoneLine)
    /\ pc' = "done"
    /\ visited' = {}
    /\ cat' = "none"
    /\ grpPos' = 0
    /\ UNCHANGED <<revision, context, args, net, argIdx, found, gets, audits>>

(***************************************************************************)
(* The inputs: sigs.yaml trees, argument lists and answers of the network. *)
(***************************************************************************)
\* all sequences over S of length lo..hi
SeqsOf(S, lo, hi) == UNION {[1..n -> S] : n \in lo..hi}

Person(name) == [Name |-> name, GitHub |-> <<"g", "h">>, Company |-> <<"c", "o">>]

FullContact ==
    [Slack |-> <<"s">>, MailingList |-> <<"m">>, PrivateMailingList |-> <<"p">>,
     GithubTeams |-> <<<<"t">>>>, Liaison |-> Nil]

Leaders(n) ==
    [Chairs         |-> [i \in 1..n |-> Person(<<"c", Digit(i)>>)],
     TechnicalLeads |-> <<Person(<<"t">>)>>,
     EmeritusLeads  |-> <<>>]

RawOwnersUrl ==
    <<"https:", "/", "/", "raw.githubusercontent.com", "/", "kubernetes", "/",
      "kubernetes", "/", "master", "/", "OWNERS">>

BlobOwnersUrl ==
    <<"https:", "/", "/", "github.com", "/", "kubernetes", "/", "community", "/",
      "blob", "/", "master", "/", "OWNERS">>

\* no blob or tree segment
PlainGitHubUrl ==
    <<"https:", "/", "/", "github.com", "/", "kubernetes", "/", "kubernetes", "/",
      "master", "/", "OWNERS">>

ExampleUrl == <<"https:", "/", "/", "example.com", "/", "OWNERS">>

\* the branch is there but no slash follows it
ShortRawUrl ==
    <<"https:", "/", "/", "raw.githubusercontent.com", "/", "kubernetes", "/",
      "kubernetes", "/", "master">>

\* a raw-content URL inside the query of another host's URL
EmbeddedRawUrl == <<"https:", "/", "/", "example.com", "/", "?"  >> \o RawOwnersUrl

OwnerUrls ==
    {RawOwnersUrl, BlobOwnersUrl, PlainGitHubUrl, ExampleUrl, ShortRawUrl, EmbeddedRawUrl}

Subproject(name, owners) ==
    [Name |-> name, Description |-> <<"d">>, Contact |-> Ref(FullContact),
     Owners |-> owners, Meetings |-> <<<<"m">>>>]

\* a group with every field present and as derived from its name
CleanGroup(groupType, name) ==
    [Dir              |-> PrefixChars(groupType) \o <<"-">> \o Hyphenated(name),
     Name             |-> name,
     Label            |-> Hyphenated(name),
     MissionStatement |-> <<"m">>,
     CharterLink      |-> <<"charter.md">>,
     Leadership       |-> Leaders(2),
     Meetings         |-> <<<<"m">>>>,
     Contact          |-> FullContact,
     Subprojects      |-> <<>>,
     StakeholderSIGs  |-> <<>>]

EmptyContext ==
    [Sigs |-> <<>>, WorkingGroups |-> <<>>, UserGroups |-> <<>>, Committees |-> <<>>]

\* ctx with group appended to the collection of category groupType
WithGroup(ctx, groupType, group) ==
    CASE groupType = "sig"       -> [ctx EXCEPT !.Sigs = Append(@, group)]
      [] groupType = "wg"        -> [ctx EXCEPT !.WorkingGroups = Append(@, group)]
      [] groupType = "ug"        -> [ctx EXCEPT !.UserGroups = Append(@, group)]
      [] groupType = "committee" -> [ctx EXCEPT !.Committees = Append(@, group)]

OwnersInfos ==
    {[Labels |-> <<>>, Approvers |-> <<>>, Reviewers |-> <<>>, RequiredReviewers |-> <<>>],
     [Labels |-> <<<<"s", "i", "g", "/", "a", "p">>>>, Approvers |-> <<<<"s", "i", "g", "-", "a", "p">>>>,
      Reviewers |-> <<>>, RequiredReviewers |-> <<>>],
     [Labels |-> <<<<"x">>>>, Approvers |-> <<>>, Reviewers |-> <<<<"b", "o", "b">>>>,
      RequiredReviewers |-> <<>>]}

GoodInfo == CHOOSE i \in OwnersInfos : Len(i.Labels) > 0 /\ Len(i.Approvers) > 0

Response(status, readErr, valid, info) ==
    Ref([StatusCode |-> status, readErr |-> readErr,
         bytes |-> [valid |-> valid, info |-> info]])

\* what http.Get may answer: no error and a response, or an error; with an
\* error the response is nil unless the error is a refused redirect
Answers ==
    {[err |-> FALSE, resp |-> Response(200, FALSE, TRUE, i)] : i \in OwnersInfos}
    \cup {[err |-> FALSE, resp |-> Response(200, FALSE, FALSE, GoodInfo)],
          [err |-> FALSE, resp |-> Response(200, TRUE, FALSE, GoodInfo)],
          [err |-> FALSE, resp |-> Response(404, FALSE, FALSE, GoodInfo)],
          [err |-> TRUE,  resp |-> Response(302, FALSE, FALSE, GoodInfo)],
          [err |-> TRUE,  resp |-> Nil]}

OkAnswer == [err |-> FALSE, resp |-> Response(200, FALSE, TRUE, GoodInfo)]

HttpCharter == <<"http", "s:", "/", "/", "example.com", "/", "charter.md">>

CharterLinks == {<<>>, <<"charter.md">>, <<"gone.md">>, HttpCharter, <<"http", "-notes.md">>}

NameAp == <<"A", "p">>

NameNe == <<"N", "e">>

\* every URL answers OkAnswer, except that url answers answer
NetWith(url, answer, charterAnswer) ==
    [owners  |-> [u \in OwnerUrls |-> IF u = url THEN answer ELSE OkAnswer],
     charter |-> [l \in CharterLinks |-> charterAnswer],
     files   |-> {<<CleanGroup(t, n).Dir, <<"charter.md">>>> : t \in GroupTypes, n \in {NameAp, NameNe}}]

DefaultNet == NetWith(RawOwnersUrl, OkAnswer, OkAnswer)

Scenario(ctx, a, n) == [revision |-> "filtered", context |-> ctx, args |-> a, net |-> n]

\* a clean user group that follows the group under audit
Sibling == CleanGroup("ug", NameNe)

WithSibling(ctx) == WithGroup(ctx, "ug", Sibling)

\* group with one field left out of sigs.yaml
Without(group, field) ==
    CASE field = "dir"               -> [group EXCEPT !.Dir = <<>>]
      [] field = "name"              -> [group EXCEPT !.Name = <<>>]
      [] field = "label"             -> [group EXCEPT !.Label = <<>>]
      [] field = "meetings"          -> [group EXCEPT !.Meetings = <<>>]
      [] field = "mission_statement" -> [group EXCEPT !.MissionStatement = <<>>]
      [] field = "charter_link"      -> [group EXCEPT !.CharterLink = <<>>]
      [] OTHER                       -> group

Fields == {"dir", "name", "label", "meetings", "mission_statement", "charter_link"}

\* one group of any category, with 0..MaxChairs chairs and at most one field missing
FieldScenarios ==
    {Scenario(WithSibling(WithGroup(EmptyContext, t,
                  Without([CleanGroup(t, NameAp) EXCEPT !.Leadership = Leaders(n)], f))),
              <<All>>, DefaultNet) :
        t \in GroupTypes, n \in 0..MaxChairs, f \in Fields \cup {"none"}}

CharterAnswers ==
    {OkAnswer, [err |-> FALSE, resp |-> Response(404, FALSE, FALSE, GoodInfo)],
     [err |-> TRUE, resp |-> Nil]}

\* a sig with each kind of charter link and each answer to its GET
CharterScenarios ==
    {Scenario(WithSibling(WithGroup(EmptyContext, "sig",
                  [CleanGroup("sig", NameAp) EXCEPT !.CharterLink = l])),
              <<All>>, NetWith(RawOwnersUrl, OkAnswer, a)) :
        l \in CharterLinks, a \in CharterAnswers}

SubprojectVariants ==
    {Subproject(<<"s", "p">>, <<BlobOwnersUrl>>),
     Subproject(<<>>, <<RawOwnersUrl>>),
     [Subproject(<<"s", "p">>, <<RawOwnersUrl>>) EXCEPT !.Contact = Nil, !.Description = <<>>],
     Subproject(<<"s", "p">>, <<>>),
     [Subproject(<<"s", "p">>, <<BlobOwnersUrl>>) EXCEPT !.Meetings = <<>>]}

\* one group of any category with 0..MaxSubprojects subprojects
SubprojectScenarios ==
    {Scenario(WithSibling(WithGroup(EmptyContext, t,
                  [CleanGroup(t, NameAp) EXCEPT !.Subprojects = sp])),
              <<All>>, DefaultNet) :
        t \in GroupTypes, sp \in SeqsOf(SubprojectVariants, 0, MaxSubprojects)}

\* a sig whose first subproject lists 1..MaxOwners owner URLs, one of which
\* gets each possible answer; a second subproject and a second group follow
OwnersScenarios ==
    {Scenario(WithSibling(WithGroup(EmptyContext, "sig",
                  [CleanGroup("sig", NameAp) EXCEPT !.Subprojects =
                      <<Subproject(<<"s", "p">>, owners),
                        Subproject(<<"s", "q">>, <<BlobOwnersUrl>>)>>])),
              <<All>>, NetWith(u, a, OkAnswer)) :
        owners \in SeqsOf(OwnerUrls, 1, MaxOwners),
        u \in {RawOwnersUrl, EmbeddedRawUrl},
        a \in Answers}

StakeholderNames == {NameAp, NameNe, <<"a", "p">>, <<"Z">>}

SigLists == {<<>>, <<CleanGroup("sig", NameAp)>>, <<CleanGroup("sig", NameAp), CleanGroup("sig", NameNe)>>}

\* a group of any category with 0..MaxStakeholders stakeholder entries,
\* against zero, one or two known sigs
StakeholderScenarios ==
    {Scenario(WithGroup([EmptyContext EXCEPT !.Sigs = sigs], t,
                  [CleanGroup(t, <<"Z">>) EXCEPT !.StakeholderSIGs = st]),
              <<All>>, DefaultNet) :
        sigs \in SigLists, t \in GroupTypes,
        st \in SeqsOf(StakeholderNames, 0, MaxStakeholders)}

Filters == {All, <<"p">>, <<"Z">>, <<"-", "n">>}

\* a sig without meetings that owns one subproject
OwningSig ==
    [CleanGroup("sig", NameAp) EXCEPT
        !.Meetings = <<>>,
        !.Subprojects = <<Subproject(<<"s", "p">>, <<RawOwnersUrl>>)>>]

\* 1..MaxArgs filters over a sig and a working group, the sig's owner URL
\* answering or failing
FilterScenarios ==
    {Scenario(WithGroup(WithGroup(EmptyContext, "sig", OwningSig), "wg",
                  [CleanGroup("wg", NameNe) EXCEPT !.StakeholderSIGs = <<NameAp>>]),
              a, NetWith(RawOwnersUrl, r, OkAnswer)) :
        a \in SeqsOf(Filters, 1, MaxArgs),
        r \in {OkAnswer, [err |-> TRUE, resp |-> Nil]}}

\* one filter over a tree with a group in each of the four categories
FourCategoryScenarios ==
    {Scenario(WithGroup(WithGroup(WithGroup(WithGroup(EmptyContext,
                  "sig", OwningSig),
                  "wg", [CleanGroup("wg", NameNe) EXCEPT !.StakeholderSIGs = <<NameAp>>]),
                  "ug", CleanGroup("ug", NameAp)),
                  "committee", CleanGroup("committee", NameNe)),
              <<f>>, DefaultNet) :
        f \in Filters}

\* the unfiltered revision over the trees that do not need filters
UnfilteredScenarios ==
    {[sc EXCEPT !.revision = "unfiltered", !.args = <<>>] :
        sc \in FieldScenarios \cup CharterScenarios \cup SubprojectScenarios
                   \cup StakeholderScenarios}

Scenarios ==
    FieldScenarios \cup CharterScenarios \cup SubprojectScenarios \cup OwnersScenarios
        \cup StakeholderScenarios \cup FilterScenarios \cup FourCategoryScenarios
        \cup UnfilteredScenarios

Init ==
    /\ \E sc \in Scenarios :
          /\ context = sc.context
          /\ args = sc.args
          /\ net = sc.net
          /\ revision = sc.revision
          /\ pc = IF sc.revision = "filtered" THEN "args" ELSE "unfiltered"
    /\ argIdx = 1
    /\ visited = {}
    /\ cat = "none"
    /\ grpPos = 0
    /\ found = FALSE
    /\ out = <<>>
    /\ gets = <<>>
    /\ audits = <<>>

Next ==
    \/ BeginArg
    \/ NextCategory
    \/ VisitGroup
    \/ EndArg
    \/ Finish
    \/ NextKeyUnfiltered
    \/ VisitGroupUnfiltered
    \/ FinishUnfiltered

Spec == Init /\ [][Next]_vars

(***************************************************************************)
(* Vocabulary of the properties.                                           *)
(***************************************************************************)
\* how often line occurs in lines
Count(line, lines) == Cardinality({i \in 1..Len(lines) : lines[i] = line})

\* how often a line of format fmt occurs in lines
CountFmt(fmt, lines) == Cardinality({i \in 1..Len(lines) : lines[i][1] = fmt})

\* the lines of format fmt, in order
LinesOf(fmt, lines) == SelectSeq(lines, LAMBDA l : l[1] = fmt)

Terminated == pc \in {"done", "panic"}

\* the auditGroup calls of the filtered revision, and of the unfiltered one
AuditRecords ==
    IF revision = "filtered" THEN {audits[i] : i \in 1..Len(audits)} ELSE {}

UnfilteredRecords ==
    IF revision = "unfiltered" THEN {audits[i] : i \in 1..Len(audits)} ELSE {}

\* the GET of an answer ended in a transport error or a non-200 status
Failed(answer) == answer.err \/ Deref(answer.resp).StatusCode # 200

\* the owner URLs of a group, one entry per occurrence
RECURSIVE Flatten(_)
Flatten(ss) == IF ss = <<>> THEN <<>> ELSE Head(ss) \o Flatten(Tail(ss))

OwnerUrlsOf(group) ==
    Flatten([i \in 1..Len(group.Subprojects) |-> group.Subprojects[i].Owners])

\* the (filter index, category, position) triples the argument list selects
SelectedTriples ==
    UNION {{<<p[1], p[2], k>> :
               k \in {k \in 1..Len(PrefixToGroupMap(context)[p[2]]) :
                         Selected(args[p[1]], PrefixToGroupMap(context)[p[2]][k])}} :
           p \in (1..Len(args)) \X GroupTypes}

AuditedTriples == {<<a.arg, a.groupType, a.idx>> : a \in AuditRecords}

(***************************************************************************)
(* C1: an owner URL that passes the shape check and whose GET ends in a    *)
(* transport error or a non-200 status gets one stale-URL WARNING per GET, *)
(* and the run is not aborted by it (it goes on to reach "Done.").         *)
(***************************************************************************)
C1_StaleUrlIsOnlyAWarning ==
    /\ pc # "panic"
    /\ \A a \in AuditRecords : \A u \in OwnerUrls :
          Failed(net.owners[u]) =>
              Cardinality({i \in 1..Len(a.res.out) :
                              /\ a.res.out[i][1] = StaleLine(u, 0, <<>>)[1]
                              /\ a.res.out[i][2] = u})
                  = Count(<<"owners", u>>, a.res.gets)

(***************************************************************************)
(* C2: when the run has ended, every group of the four categories that a   *)
(* filter selects (by "all" or as a substring of Name or Dir) was audited  *)
(* for that filter and no other group was, and the "[name] not found"      *)
(* lines are exactly those of the filters that caused no audit.            *)
(***************************************************************************)
C2_FiltersSelectAndReport ==
    Terminated =>
        /\ AuditedTriples = SelectedTriples
        /\ \A f \in Range(args) :
              Count(NotFoundLine(f), out)
                  = Cardinality({i \in 1..Len(args) :
                                    /\ args[i] = f
                                    /\ ~\E a \in AuditRecords : a.arg = i})

(***************************************************************************)
(* C3: the output of a completed run is a function of the input alone:     *)
(* the groups are audited category by category in a fixed order, and in    *)
(* insertion order within a category.                                      *)
(***************************************************************************)
CategoryOrder == <<"sig", "wg", "ug", "committee">>

OutputInCategoryOrder ==
    LET groupsOf(t) == PrefixToGroupMap(context)[t]
        forArg(name) ==
            Block(<<
                Block([c \in 1..Len(CategoryOrder) |->
                    Block([k \in 1..Len(groupsOf(CategoryOrder[c])) |->
                        When(Selected(name, groupsOf(CategoryOrder[c])[k]),
                             auditGroup(CategoryOrder[c], groupsOf(CategoryOrder[c])[k],
                                        context))])]),
                When(~\E t \in GroupTypes : \E k \in 1..Len(groupsOf(t)) :
                          Selected(name, groupsOf(t)[k]),
                     Printf(NotFoundLine(name)))
            >>)
    IN  Then(Block([i \in 1..Len(args) |-> forArg(args[i])]), Printf(DoneLine)).out

KeyOrder == <<"sigs", "usergroups", "workinggroups", "committees">>

OutputUnfilteredInKeyOrder ==
    LET groupsOf(t) == groupMap(context)[t]
    IN  Then(Block([c \in 1..Len(KeyOrder) |->
                 Block([k \in 1..Len(groupsOf(KeyOrder[c])) |->
                     auditGroupUnfiltered(KeyOrder[c], groupsOf(KeyOrder[c])[k], context)])]),
             Printf(DoneLine)).out

C3_OutputIsAFunctionOfInput ==
    pc = "done" =>
        out = (IF revision = "filtered" THEN OutputInCategoryOrder
               ELSE OutputUnfilteredInKeyOrder)

(***************************************************************************)
(* C4: an audited sig gets the WARNING suggesting more chairs if and only  *)
(* if it has exactly one chair.                                            *)
(***************************************************************************)
C4_MoreChairsIffExactlyOne ==
    /\ \A a \in AuditRecords :
          a.groupType = "sig" =>
              Count(MoreChairsLine, a.res.out)
                  = (IF Len(a.group.Leadership.Chairs) = 1 THEN 1 ELSE 0)
    /\ \A a \in UnfilteredRecords :
          a.groupType = "sigs" =>
              Count(MoreChairsLineUnfiltered(a.groupType, a.group), a.res.out)
                  = (IF Len(a.group.Leadership.Chairs) = 1 THEN 1 ELSE 0)

(***************************************************************************)
(* C5: whenever an audited group lacks a required field, its audit holds   *)
(* exactly one finding for that field, the audit runs on through the       *)
(* group's remaining fields, and the run goes on with the groups after it. *)
(***************************************************************************)
RequiredFields(groupType) ==
    {"dir", "name", "label", "meetings"}
        \cup (IF groupType = "sig" THEN {"mission_statement", "charter_link"} ELSE {})

MissingFields(groupType, group) ==
    {f \in RequiredFields(groupType) : Without(group, f) = group}

MissingLine(f) ==
    CASE f = "dir"               -> MissingDirLine
      [] f = "name"              -> MissingNameLine
      [] f = "label"             -> MissingLabelLine
      [] f = "meetings"          -> MissingMeetingsLine
      [] f = "mission_statement" -> MissingMissionLine
      [] f = "charter_link"      -> MissingCharterLine

\* the lines of a group's audit before its first subproject
GroupLevel(group, lines) ==
    LET subs == {i \in 1..Len(lines) :
                    \E k \in 1..Len(group.Subprojects) :
                        lines[i] = SubprojectHeader(group, group.Subprojects[k])}
    IN  IF subs = {} THEN lines
        ELSE SubSeq(lines, 1, (CHOOSE i \in subs : \A j \in subs : i <= j) - 1)

C5_OneFindingPerMissingField ==
    \A a \in AuditRecords :
        MissingFields(a.groupType, a.group) # {} =>
            /\ \A f \in MissingFields(a.groupType, a.group) :
                  Count(MissingLine(f), GroupLevel(a.group, a.res.out)) = 1
            /\ ~a.res.panic
            /\ pc # "panic"
            /\ Terminated => AuditedTriples = SelectedTriples

(***************************************************************************)
(* C6: the audit of a group holds the ERROR about subprojects exactly once *)
(* and naming the count n when the category is neither sig nor committee   *)
(* and the group declares n > 0 subprojects, and never otherwise.          *)
(***************************************************************************)
C6_SubprojectsErrorOnlyOutsideSigAndCommittee ==
    \A a \in AuditRecords :
        LET n == Len(a.group.Subprojects) IN
        IF a.groupType \notin {"sig", "committee"} /\ n > 0
        THEN /\ CountFmt(SubprojectsErrorLine(0)[1], a.res.out) = 1
             /\ Count(SubprojectsErrorLine(n), a.res.out) = 1
        ELSE CountFmt(SubprojectsErrorLine(0)[1], a.res.out) = 0

\* a user group or working group with the largest number of subprojects
\* was audited and got the ERROR
C6_Witness ==
    \E a \in AuditRecords :
        /\ a.groupType \in {"ug", "wg"}
        /\ Len(a.group.Subprojects) = MaxSubprojects
        /\ Count(SubprojectsErrorLine(MaxSubprojects), a.res.out) = 1

(***************************************************************************)
(* C7: in the audit of a group, every owner URL of its subprojects gets    *)
(* exactly one GET if it matches one of the two patterns, and exactly one  *)
(* ERROR and no GET if it matches neither.                                 *)
(***************************************************************************)
C7_GetIffShapeMatches ==
    \A a \in AuditRecords :
        a.groupType = "sig" =>
            \A u \in Range(OwnerUrlsOf(a.group)) :
                /\ Count(<<"owners", u>>, a.res.gets)
                      = (IF UrlShapeOk(u) THEN Count(u, OwnerUrlsOf(a.group)) ELSE 0)
                /\ Count(ShapeErrorLine(u), a.res.out)
                      = (IF UrlShapeOk(u) THEN 0 ELSE Count(u, OwnerUrlsOf(a.group)))

(***************************************************************************)
(* C8 as stated: a committee follows the subproject rule of a sig: without *)
(* subprojects its audit holds the missing-subprojects WARNING, and with   *)
(* subprojects each of them is validated.                                  *)
(***************************************************************************)
C8_CommitteeLikeSig ==
    \A a \in AuditRecords :
        a.groupType = "committee" =>
            IF Len(a.group.Subprojects) = 0
            THEN Count(MissingSubprojectsLine, a.res.out) = 1
            ELSE \A k \in 1..Len(a.group.Subprojects) :
                    Count(SubprojectHeader(a.group, a.group.Subprojects[k]), a.res.out) >= 1

(***************************************************************************)
(* C8 as amended: a committee does not follow the subproject rule of a     *)
(* sig: its audit holds neither the missing-subprojects WARNING nor any    *)
(* subproject validation (no subproject header, no owners GET); it is only *)
(* spared the ERROR that other categories get for declaring subprojects.   *)
(***************************************************************************)
C8_CommitteeSubprojectsNotAudited ==
    \A a \in AuditRecords :
        a.groupType = "committee" =>
            /\ Count(MissingSubprojectsLine, a.res.out) = 0
            /\ CountFmt(SubprojectHeader(a.group, Subproject(<<>>, <<>>))[1], a.res.out) = 0
            /\ a.res.gets = <<>>
            /\ CountFmt(SubprojectsErrorLine(0)[1], a.res.out) = 0

\* a committee that declares subprojects was audited
C8_Witness ==
    \E a \in AuditRecords :
        /\ a.groupType = "committee"
        /\ Len(a.group.Subprojects) > 0
        /\ \E k \in 1..Len(a.group.Subprojects) : Len(a.group.Subprojects[k].Owners) > 0
        /\ pc = "done"

(***************************************************************************)
(* C9: the audit of a group that is not a working group and has a          *)
(* non-empty stakeholder list holds the ERROR that only working groups may *)
(* have stakeholder sigs.                                                  *)
(***************************************************************************)
C9_StakeholdersOnlyForWorkingGroups ==
    \A a \in AuditRecords :
        (a.groupType # "wg" /\ Len(a.group.StakeholderSIGs) > 0) =>
            Count(OnlyWorkingGroupsLine, a.res.out) >= 1

(***************************************************************************)
(* C10: the audit of a working group holds, in list order, one "entry not  *)
(* found" WARNING for each stakeholder entry that equals no known sig's    *)
(* display name and none for the others; an empty list gives only the      *)
(* single missing-stakeholders WARNING.                                    *)
(***************************************************************************)
SigNames == {context.Sigs[i].Name : i \in 1..Len(context.Sigs)}

UnknownStakeholders(group) == SelectSeq(group.StakeholderSIGs, LAMBDA e : e \notin SigNames)

C10_OneWarningPerUnknownStakeholder ==
    /\ \A a \in AuditRecords :
          a.groupType = "wg" =>
              /\ LinesOf(StakeholderNotFoundLine(<<>>)[1], a.res.out)
                    = [i \in 1..Len(UnknownStakeholders(a.group)) |->
                          StakeholderNotFoundLine(UnknownStakeholders(a.group)[i])]
              /\ Count(MissingStakeholdersLine, a.res.out)
                    = (IF Len(a.group.StakeholderSIGs) = 0 THEN 1 ELSE 0)
    /\ \A a \in UnfilteredRecords :
          a.groupType = "workinggroups" =>
              /\ LinesOf(StakeholderNotFoundLineUnfiltered(<<>>, a.groupType, a.group)[1],
                         a.res.out)
                    = [i \in 1..Len(UnknownStakeholders(a.group)) |->
                          StakeholderNotFoundLineUnfiltered(UnknownStakeholders(a.group)[i],
                                                            a.groupType, a.group)]
              /\ Count(MissingStakeholdersLineUnfiltered(a.groupType, a.group), a.res.out)
                    = (IF Len(a.group.StakeholderSIGs) = 0 THEN 1 ELSE 0)

\* a working group listing a known sig and an unknown entry was audited and
\* got one WARNING, for the unknown entry
C10_Witness ==
    \E a \in AuditRecords :
        /\ a.groupType = "wg"
        /\ \E i \in 1..Len(a.group.StakeholderSIGs) : a.group.StakeholderSIGs[i] \in SigNames
        /\ Len(UnknownStakeholders(a.group)) = 1
        /\ CountFmt(StakeholderNotFoundLine(<<>>)[1], a.res.out) = 1

====
